---- MODULE Spec2Model ----
(***************************************************************************)
(* A model of queenbee's repository index (queenbee/repository/index.py)   *)
(* and of the resolution of one dependency against a published index       *)
(* (queenbee/recipe/dependency.py).                                        *)
(*                                                                         *)
(* Spec         the in-memory RepositoryIndex under insertions and merges  *)
(* SpecLookup   one lookup on an index that insertions built               *)
(* SpecResolve  one Dependency.fetch call against a published index        *)
(***************************************************************************)
EXTENDS Integers, Sequences, FiniteSets, TLC

(***************************************************************************)
(* Bounds of the model.                                                    *)
(***************************************************************************)
\* the clock stops here: every insertion attempt reads one later instant
MaxTime == 2
\* the most packages one merged folder holds (both sub-folders together)
MaxPackages == 2
\* the most insertions that built the index a dependency is resolved against
MaxBuilt == 2
\* the most members of a fetched tar archive
MaxMembers == 2
\* the most insertions that built the index a folder is merged into
MaxTarget == 1
\* the most insertions by which a registry grows between two fetch calls
MaxGrowth == 1
\* the most insertions that built the index one more record is inserted into
MaxIndexed == 4

Kinds == {"operator", "recipe"}
Names == {"n1", "n2"}
Versions == {"v1", "v2"}
Digests == {"dA", "dB"}

\* Python's None
None == "None"

(***************************************************************************)
(* Data: the version records of package.py as the index sees them, and     *)
(* Python dicts as functions on the set of their keys.                     *)
(***************************************************************************)
\* the url of a packaged version, relative to the repository: the file its
\* name and version give it
PackageFile(name, version) == <<name, "-", version, ".tgz">>

\* the version records offered to the index
ResourceVersion ==
    {[name |-> n, version |-> v, digest |-> d, url |-> PackageFile(n, v)] :
        n \in Names, v \in Versions, d \in Digests}

\* dict.get(key, default)
DictGet(d, key, default) == IF key \in DOMAIN d THEN d[key] ELSE default

\* d[key] = value
DictSet(d, key, value) ==
    [k \in (DOMAIN d) \cup {key} |-> IF k = key THEN value ELSE d[k]]

EmptyDict == [k \in {} |-> <<>>]

\* filter(pred, list) for the two predicates the index uses
RECURSIVE FilterVersionEq(_, _)
FilterVersionEq(list, version) ==
    IF list = <<>> THEN <<>>
    ELSE IF Head(list).version = version
         THEN <<Head(list)>> \o FilterVersionEq(Tail(list), version)
         ELSE FilterVersionEq(Tail(list), version)

RECURSIVE FilterVersionNe(_, _)
FilterVersionNe(list, version) ==
    IF list = <<>> THEN <<>>
    ELSE IF Head(list).version # version
         THEN <<Head(list)>> \o FilterVersionNe(Tail(list), version)
         ELSE FilterVersionNe(Tail(list), version)

RECURSIVE FilterDigestEq(_, _)
FilterDigestEq(list, digest) ==
    IF list = <<>> THEN <<>>
    ELSE IF Head(list).digest = digest
         THEN <<Head(list)>> \o FilterDigestEq(Tail(list), digest)
         ELSE FilterDigestEq(Tail(list), digest)

\* next(iterator, None) is None: the filter yields nothing
Exhausted(list) == list = <<>>

\* next(iterator, None) when the filter yields something
First(list) == Head(list)

(***************************************************************************)
(* Exceptions.  A message is the sequence of the pieces its f-string is    *)
(* made of, so that two messages are equal exactly when the strings are.   *)
(***************************************************************************)
ValueError(msg) == [type |-> "ValueError", msg |-> msg]

AlreadyIndexedMsg(name, version) ==
    <<"Resource ", name, " already has a version ", version, " in the index">>

NoNameMsg(package_type, package_name) ==
    <<"No ", package_type, " package with name ", package_name,
      " exists in this index">>

NoVersionMsg(package_type, package_name, package_version) ==
    <<"No ", package_type, " package with name ", package_name,
      " and version ", package_version, " exists in this index">>

NoDigestMsg(package_type, package_name, package_digest) ==
    <<"No ", package_type, " package with name ", package_name,
      " and digest ", package_digest, " exists in this index">>

\* 'piece' in str(error)
Contains(msg, piece) == \E i \in 1..Len(msg) : msg[i] = piece

\* no exception
NoError == [type |-> "None", msg |-> <<>>]

Raise(error) == [raised |-> TRUE, error |-> error]
Return(value) == [raised |-> FALSE, value |-> value]

(***************************************************************************)
(* RepositoryIndex                                                         *)
(***************************************************************************)
\* cls.parse_obj({}): no timestamp (0 stands for None), two empty dicts
EmptyIndex == [generated |-> 0, operator |-> EmptyDict, recipe |-> EmptyDict]

\* _index_resource_version without line 118: the new record is appended to the
\* list as it stands
index_resource_version_appends(resource_dict, resource_version, overwrite) ==
    LET resource_list == DictGet(resource_dict, resource_version.name, <<>>)
        match == FilterVersionEq(resource_list, resource_version.version)
    IN  IF ~overwrite /\ ~Exhausted(match)
        THEN Raise(ValueError(AlreadyIndexedMsg(resource_version.name,
                                                resource_version.version)))
        ELSE Return(DictSet(resource_dict, resource_version.name,
                            Append(resource_list, resource_version)))

\* _index_resource_version with the test of line 113 lost: every insertion
\* overwrites
index_resource_version_unchecked(resource_dict, resource_version, overwrite) ==
    LET resource_list == DictGet(resource_dict, resource_version.name, <<>>)
        kept == FilterVersionNe(resource_list, resource_version.version)
    IN  Return(DictSet(resource_dict, resource_version.name,
                       Append(kept, resource_version)))

\* _index_resource_version keeping the record it finds: under overwrite an
\* indexed version is left as it is
index_resource_version_keeps(resource_dict, resource_version, overwrite) ==
    LET resource_list == DictGet(resource_dict, resource_version.name, <<>>)
        match == FilterVersionEq(resource_list, resource_version.version)
        kept == FilterVersionNe(resource_list, resource_version.version)
    IN  IF ~overwrite /\ ~Exhausted(match)
        THEN Raise(ValueError(AlreadyIndexedMsg(resource_version.name,
                                                resource_version.version)))
        ELSE IF ~Exhausted(match) THEN Return(resource_dict)
        ELSE Return(DictSet(resource_dict, resource_version.name,
                            Append(kept, resource_version)))

\* the insertion that puts the new record in the place of the one it replaces
index_resource_version_in_place(resource_dict, resource_version, overwrite) ==
    LET resource_list == DictGet(resource_dict, resource_version.name, <<>>)
        match == FilterVersionEq(resource_list, resource_version.version)
    IN  IF ~overwrite /\ ~Exhausted(match)
        THEN Raise(ValueError(AlreadyIndexedMsg(resource_version.name,
                                                resource_version.version)))
        ELSE IF Exhausted(match)
             THEN Return(DictSet(resource_dict, resource_version.name,
                                 Append(resource_list, resource_version)))
             ELSE Return(DictSet(resource_dict, resource_version.name,
                      [i \in 1..Len(resource_list) |->
                          IF resource_list[i].version = resource_version.version
                          THEN resource_version ELSE resource_list[i]]))

\* RepositoryIndex._index_resource_version
_index_resource_version(resource_dict, resource_version, overwrite) ==
    LET resource_list == DictGet(resource_dict, resource_version.name, <<>>)
        match == FilterVersionEq(resource_list, resource_version.version)
        kept == FilterVersionNe(resource_list, resource_version.version)
    IN  IF ~overwrite /\ ~Exhausted(match)
        THEN Raise(ValueError(AlreadyIndexedMsg(resource_version.name,
                                                resource_version.version)))
        ELSE Return(DictSet(resource_dict, resource_version.name,
                            Append(kept, resource_version)))

\* RepositoryIndex.index_operator_version, called at instant utcnow
index_operator_version(self, operator_version, overwrite, utcnow) ==
    LET res == _index_resource_version(self.operator, operator_version, overwrite)
    IN  IF res.raised THEN Raise(res.error)
        ELSE Return([self EXCEPT !.operator = res.value, !.generated = utcnow])

\* RepositoryIndex.index_recipe_version, called at instant utcnow
index_recipe_version(self, recipe_version, overwrite, utcnow) ==
    LET res == _index_resource_version(self.recipe, recipe_version, overwrite)
    IN  IF res.raised THEN Raise(res.error)
        ELSE Return([self EXCEPT !.recipe = res.value, !.generated = utcnow])

\* RepositoryIndex.package_by_version
package_by_version(self, package_type, package_name, package_version) ==
    LET package_dict == self[package_type]
    IN  IF package_name \notin DOMAIN package_dict
        THEN Raise(ValueError(NoNameMsg(package_type, package_name)))
        ELSE LET res == FilterVersionEq(package_dict[package_name], package_version)
             IN  IF Exhausted(res)
                 THEN Raise(ValueError(NoVersionMsg(package_type, package_name,
                                                    package_version)))
                 ELSE Return(First(res))

\* package_by_digest giving the last record of the digest, not the first
package_by_digest_last(self, package_type, package_name, package_digest) ==
    LET package_dict == self[package_type]
    IN  IF package_name \notin DOMAIN package_dict
        THEN Raise(ValueError(NoNameMsg(package_type, package_name)))
        ELSE LET res == FilterDigestEq(package_dict[package_name], package_digest)
             IN  IF Exhausted(res)
                 THEN Raise(ValueError(NoDigestMsg(package_type, package_name,
                                                   package_digest)))
                 ELSE Return(res[Len(res)])

\* package_by_digest with the lambda of package_by_version: the digest is
\* compared with each record's version
package_by_digest_version(self, package_type, package_name, package_digest) ==
    LET package_dict == self[package_type]
    IN  IF package_name \notin DOMAIN package_dict
        THEN Raise(ValueError(NoNameMsg(package_type, package_name)))
        ELSE LET res == FilterVersionEq(package_dict[package_name], package_digest)
             IN  IF Exhausted(res)
                 THEN Raise(ValueError(NoDigestMsg(package_type, package_name,
                                                   package_digest)))
                 ELSE Return(First(res))

\* RepositoryIndex.package_by_digest
package_by_digest(self, package_type, package_name, package_digest) ==
    LET package_dict == self[package_type]
    IN  IF package_name \notin DOMAIN package_dict
        THEN Raise(ValueError(NoNameMsg(package_type, package_name)))
        ELSE LET res == FilterDigestEq(package_dict[package_name], package_digest)
             IN  IF Exhausted(res)
                 THEN Raise(ValueError(NoDigestMsg(package_type, package_name,
                                                   package_digest)))
                 ELSE Return(First(res))

\* the loop with break for continue: after a skipped conflict the rest of the
\* sub-folder is left out
RECURSIVE merge_loop_breaks(_, _, _, _, _, _)
merge_loop_breaks(self, packages, package_type, overwrite, skip, clock) ==
    IF packages = <<>>
    THEN [raised |-> FALSE, error |-> NoError, self |-> self, clock |-> clock]
    ELSE LET res == IF package_type = "operator"
                    THEN index_operator_version(self, Head(packages), overwrite,
                                                clock + 1)
                    ELSE index_recipe_version(self, Head(packages), overwrite,
                                              clock + 1)
         IN  IF ~res.raised
             THEN merge_loop_breaks(res.value, Tail(packages), package_type,
                                    overwrite, skip, clock + 1)
             ELSE IF Contains(res.error.msg, " already has a version ") /\ skip
                  THEN [raised |-> FALSE, error |-> NoError, self |-> self,
                        clock |-> clock + 1]
                  ELSE [raised |-> TRUE, error |-> res.error, self |-> self,
                        clock |-> clock + 1]

\* the loop without the test of skip: every conflict is skipped
RECURSIVE merge_loop_skips(_, _, _, _, _, _)
merge_loop_skips(self, packages, package_type, overwrite, skip, clock) ==
    IF packages = <<>>
    THEN [raised |-> FALSE, error |-> NoError, self |-> self, clock |-> clock]
    ELSE LET res == IF package_type = "operator"
                    THEN index_operator_version(self, Head(packages), overwrite,
                                                clock + 1)
                    ELSE index_recipe_version(self, Head(packages), overwrite,
                                              clock + 1)
         IN  IF ~res.raised
             THEN merge_loop_skips(res.value, Tail(packages), package_type,
                                   overwrite, skip, clock + 1)
             ELSE IF Contains(res.error.msg, " already has a version ")
                  THEN merge_loop_skips(self, Tail(packages), package_type,
                                        overwrite, skip, clock + 1)
                  ELSE [raised |-> TRUE, error |-> res.error, self |-> self,
                        clock |-> clock + 1]

\* one pass of a loop of RepositoryIndex.merge_folder over the packages of a
\* sub-folder: each insertion is attempted at the next instant; a conflict is
\* skipped under skip, any other outcome of the except clause raises, and the
\* index keeps what was inserted before
RECURSIVE merge_loop(_, _, _, _, _, _)
merge_loop(self, packages, package_type, overwrite, skip, clock) ==
    IF packages = <<>>
    THEN [raised |-> FALSE, error |-> NoError, self |-> self, clock |-> clock]
    ELSE LET res == IF package_type = "operator"
                    THEN index_operator_version(self, Head(packages), overwrite,
                                                clock + 1)
                    ELSE index_recipe_version(self, Head(packages), overwrite,
                                              clock + 1)
         IN  IF ~res.raised
             THEN merge_loop(res.value, Tail(packages), package_type, overwrite,
                             skip, clock + 1)
             ELSE IF Contains(res.error.msg, " already has a version ") /\ skip
                  THEN merge_loop(self, Tail(packages), package_type, overwrite,
                                  skip, clock + 1)
                  ELSE [raised |-> TRUE, error |-> res.error, self |-> self,
                        clock |-> clock + 1]

\* RepositoryIndex.merge_folder: the operators sub-folder, then the recipes
merge_folder(self, folder, overwrite, skip, clock) ==
    LET ops == merge_loop(self, folder.operators, "operator", overwrite, skip, clock)
    IN  IF ops.raised THEN ops
        ELSE merge_loop(ops.self, folder.recipes, "recipe", overwrite, skip,
                        ops.clock)

(***************************************************************************)
(* State.                                                                  *)
(***************************************************************************)
VARIABLES
    index,          \* the RepositoryIndex object in memory
    now,            \* the last instant datetime.utcnow() returned
    last,           \* the last call on the index: arguments, index before, outcome
    index_json,     \* the index.json published at the dependency's source
    ref,            \* the Dependency object as it was when fetch was called
    dep,            \* the Dependency object fetch is called on (self)
    verifydigest,   \* fetch's parameter
    pc,             \* where the fetch call is
    fetched,        \* what _fetch_index returned
    package_meta,   \* the record fetch located
    lookups,        \* the lookups the call has made on the fetched index, in order
    requests,       \* the URLs the call has opened, in order
    tar,            \* the members of the archive fetched from package_url
    result,         \* what the fetch call gave: a return value or an exception
    publishing      \* the index_resource publishing in progress on one index folder

ivars == <<index, now, last>>
rvars == <<index_json, ref, dep, verifydigest, pc, fetched, package_meta,
           lookups, requests, tar, result>>
vars == <<index, now, last, index_json, ref, dep, verifydigest, pc, fetched,
          package_meta, lookups, requests, tar, result, publishing>>

\* sequences over S of length at most n
SeqUpTo(S, n) == UNION {[1..k -> S] : k \in 0..n}

\* the folders merge_folder may read: os.listdir gives each sub-folder's
\* packages in some order
Folders ==
    UNION {[operators : [1..n -> ResourceVersion],
            recipes : [1..(total - n) -> ResourceVersion]] :
              <<n, total>> \in {nt \in (0..MaxPackages) \X (1..MaxPackages) :
                                  nt[1] <= nt[2]}}

NoCall == [op |-> "none"]

\* a Dependency object before any fetch
NoDependency == [type |-> "operator", name |-> "n1", digest |-> None,
                 alias |-> None, version |-> "v1", source |-> <<"file:", "repo">>]
NoRecord == [name |-> None, version |-> None, digest |-> None, url |-> <<>>]
NoResult == [raised |-> FALSE, error |-> NoError, file_bytes |-> None,
             digest |-> None]

\* the callers of RepositoryIndex.index_resource on the index folder
Publishers == {"p1", "p2"}

\* a caller that has not called index_resource
NoPublish ==
    [pc |-> "idle", kind |-> None, resource_version |-> NoRecord,
     overwrite |-> FALSE, loaded |-> EmptyIndex, index |-> EmptyIndex,
     error |-> NoError]

NoCalls == [p \in Publishers |-> NoPublish]

\* no fetch call is running
InitResolver ==
    /\ ref = NoDependency
    /\ dep = NoDependency
    /\ verifydigest = TRUE
    /\ pc = "Idle"
    /\ fetched = EmptyIndex
    /\ package_meta = NoRecord
    /\ lookups = <<>>
    /\ requests = <<>>
    /\ tar = <<>>
    /\ result = NoResult

Init ==
    /\ index = EmptyIndex
    /\ now = 0
    /\ last = NoCall
    /\ index_json = EmptyIndex
    /\ InitResolver
    /\ publishing = NoCalls

(***************************************************************************)
(* Calls on the index in memory.                                           *)
(***************************************************************************)
\* index.index_operator_version(operator_version, overwrite)
IndexOperatorVersion ==
    \E operator_version \in ResourceVersion, overwrite \in BOOLEAN :
        LET res == index_operator_version(index, operator_version, overwrite,
                                          now + 1)
        IN  /\ now < MaxTime
            /\ now' = now + 1
            /\ index' = IF res.raised THEN index ELSE res.value
            /\ last' = [op |-> "insert", kind |-> "operator",
                        resource_version |-> operator_version,
                        overwrite |-> overwrite, pre |-> index,
                        raised |-> res.raised,
                        error |-> IF res.raised THEN res.error ELSE NoError]
            /\ UNCHANGED <<rvars, publishing>>

\* index.index_recipe_version(recipe_version, overwrite)
IndexRecipeVersion ==
    \E recipe_version \in ResourceVersion, overwrite \in BOOLEAN :
        LET res == index_recipe_version(index, recipe_version, overwrite, now + 1)
        IN  /\ now < MaxTime
            /\ now' = now + 1
            /\ index' = IF res.raised THEN index ELSE res.value
            /\ last' = [op |-> "insert", kind |-> "recipe",
                        resource_version |-> recipe_version,
                        overwrite |-> overwrite, pre |-> index,
                        raised |-> res.raised,
                        error |-> IF res.raised THEN res.error ELSE NoError]
            /\ UNCHANGED <<rvars, publishing>>

\* index.merge_folder(folder_path, overwrite, skip)
MergeFolder ==
    \E folder \in Folders, overwrite \in BOOLEAN, skip \in BOOLEAN :
        LET res == merge_folder(index, folder, overwrite, skip, now)
        IN  /\ now + Len(folder.operators) + Len(folder.recipes) <= MaxTime
            /\ now' = res.clock
            /\ index' = res.self
            /\ last' = [op |-> "merge", folder |-> folder, overwrite |-> overwrite,
                        skip |-> skip, pre |-> index, raised |-> res.raised,
                        error |-> res.error]
            /\ UNCHANGED <<rvars, publishing>>

Next ==
    \/ IndexOperatorVersion
    \/ IndexRecipeVersion
    \/ MergeFolder

Spec == Init /\ [][Next]_vars

(***************************************************************************)
(* Dependency.fetch, one call, step by step.                               *)
(***************************************************************************)
\* a source is the sequence of the pieces of its URL
Sources == {<<"file:", "repo">>, <<"https://registry">>}
Bytes == {"bA", "bB"}
Members == [name : {"resource.json"}, data : Bytes]
               \cup {[name |-> "README.md", data |-> "bA"],
                     [name |-> "pkg/resource.json", data |-> "bB"]}

\* the archives a package URL may serve
Archives == SeqUpTo(Members, MaxMembers)

\* the Dependency objects fetch may be called on
Dependencies == [type : Kinds, name : Names, digest : Digests \cup {None},
                 alias : {None}, version : Versions, source : Sources]

\* hashlib.sha256(file_bytes).hexdigest()
sha256_hexdigest(file_bytes) == IF file_bytes = "bA" THEN "dA" ELSE "dB"

\* the indexes a repository publishes: built from the empty index by at most n
\* insertions
RECURSIVE BuiltIndexes(_)
BuiltIndexes(n) ==
    IF n = 0 THEN {EmptyIndex}
    ELSE LET built == BuiltIndexes(n - 1)
         IN  built
             \cup {index_operator_version(i, r, TRUE, 1).value :
                      i \in built, r \in ResourceVersion}
             \cup {index_recipe_version(i, r, TRUE, 1).value :
                      i \in built, r \in ResourceVersion}

PublishedIndexes == BuiltIndexes(MaxBuilt)

\* Dependency.is_locked
is_locked(self) == self.digest # None

\* the URL Dependency._fetch_index opens
index_url(self) ==
    IF self.source[1] = "file:"
    THEN <<"file:", "cwd">> \o Tail(self.source) \o <<"index.json">>
    ELSE self.source \o <<"index.json">>

\* package_url = os.path.join(self.source, package_meta.url)
package_url(self, meta) == self.source \o meta.url

URLError == [type |-> "URLError", msg |-> <<"urlopen error">>]
ReadError == [type |-> "ReadError", msg |-> <<"file could not be opened successfully">>]
HashMsg(expected, got) ==
    <<"Hash of resource.json file is different from the one expected from the index",
      "Expected ", expected, " and got ", got>>
AssertionError(msg) == [type |-> "AssertionError", msg |-> msg]
NoResourceMsg ==
    <<"package tar file did not contain a resource.json file so could not be decoded">>

Failure(error) == [raised |-> TRUE, error |-> error, file_bytes |-> None,
                   digest |-> None]
Returned(file_bytes, digest) == [raised |-> FALSE, error |-> NoError,
                                 file_bytes |-> file_bytes, digest |-> digest]

\* the state at the entry of a fetch call
InitResolve ==
    /\ index = EmptyIndex
    /\ now = 0
    /\ last = NoCall
    /\ index_json \in PublishedIndexes
    /\ ref \in Dependencies
    /\ dep = ref
    /\ verifydigest \in BOOLEAN
    /\ pc = "Unresolved"
    /\ fetched = EmptyIndex
    /\ package_meta = NoRecord
    /\ lookups = <<>>
    /\ requests = <<>>
    /\ tar = <<>>
    /\ result = NoResult
    /\ publishing = NoCalls

\* Dependency._fetch_index: urlopen answers and the document parses
FetchIndex ==
    /\ pc = "Unresolved"
    /\ requests' = Append(requests, index_url(dep))
    /\ fetched' = index_json
    /\ pc' = "IndexFetched"
    /\ UNCHANGED <<ivars, publishing, index_json, ref, dep, verifydigest, package_meta,
                   lookups, tar, result>>

\* Dependency._fetch_index: urlopen raises
FetchIndexFails ==
    /\ pc = "Unresolved"
    /\ requests' = Append(requests, index_url(dep))
    /\ result' = Failure(URLError)
    /\ pc' = "Failed"
    /\ UNCHANGED <<ivars, publishing, index_json, ref, dep, verifydigest, fetched,
                   package_meta, lookups, tar>>

\* what lines 96-124 of fetch leave: the exception that ends the call, or the
\* record located and the digest self carries, and the lookups made
Located(package_meta_, digest, calls) ==
    [raised |-> FALSE, error |-> NoError, package_meta |-> package_meta_,
     digest |-> digest, calls |-> calls]
NotLocated(error, digest, calls) ==
    [raised |-> TRUE, error |-> error, package_meta |-> NoRecord,
     digest |-> digest, calls |-> calls]

\* lines 96-124 without line 103: the record is located, self is not locked
locate_unlocked(self, idx) ==
    IF self.digest = None
    THEN LET res == package_by_version(idx, self.type, self.name, self.version)
         IN  IF res.raised
             THEN NotLocated(res.error, self.digest, <<"package_by_version">>)
             ELSE Located(res.value, self.digest, <<"package_by_version">>)
    ELSE LET res == package_by_digest(idx, self.type, self.name, self.digest)
         IN  IF ~res.raised
             THEN Located(res.value, self.digest, <<"package_by_digest">>)
             ELSE IF res.error.msg = NoDigestMsg(self.type, self.name, self.digest)
                  THEN LET again == package_by_version(idx, self.type, self.name,
                                                       self.version)
                           calls == <<"package_by_digest", "package_by_version">>
                       IN  IF again.raised
                           THEN NotLocated(again.error, self.digest, calls)
                           ELSE Located(again.value, again.value.digest, calls)
                  ELSE NotLocated(res.error, self.digest, <<"package_by_digest">>)

\* lines 96-124 without line 122: the fallback keeps the pinned digest
locate_stale(self, idx) ==
    IF self.digest = None
    THEN LET res == package_by_version(idx, self.type, self.name, self.version)
         IN  IF res.raised
             THEN NotLocated(res.error, self.digest, <<"package_by_version">>)
             ELSE Located(res.value, res.value.digest, <<"package_by_version">>)
    ELSE LET res == package_by_digest(idx, self.type, self.name, self.digest)
         IN  IF ~res.raised
             THEN Located(res.value, self.digest, <<"package_by_digest">>)
             ELSE IF res.error.msg = NoDigestMsg(self.type, self.name, self.digest)
                  THEN LET again == package_by_version(idx, self.type, self.name,
                                                       self.version)
                           calls == <<"package_by_digest", "package_by_version">>
                       IN  IF again.raised
                           THEN NotLocated(again.error, self.digest, calls)
                           ELSE Located(again.value, self.digest, calls)
                  ELSE NotLocated(res.error, self.digest, <<"package_by_digest">>)

\* lines 96-124 without the test of line 115: any ValueError of the lookup by
\* digest falls back to the lookup by version
locate_any_error(self, idx) ==
    IF self.digest = None
    THEN LET res == package_by_version(idx, self.type, self.name, self.version)
         IN  IF res.raised
             THEN NotLocated(res.error, self.digest, <<"package_by_version">>)
             ELSE Located(res.value, res.value.digest, <<"package_by_version">>)
    ELSE LET res == package_by_digest(idx, self.type, self.name, self.digest)
         IN  IF ~res.raised
             THEN Located(res.value, self.digest, <<"package_by_digest">>)
             ELSE LET again == package_by_version(idx, self.type, self.name,
                                                  self.version)
                      calls == <<"package_by_digest", "package_by_version">>
                  IN  IF again.raised
                      THEN NotLocated(again.error, self.digest, calls)
                      ELSE Located(again.value, again.value.digest, calls)

\* lines 96-124 of fetch
locate(self, idx) ==
    IF self.digest = None
    THEN LET res == package_by_version(idx, self.type, self.name, self.version)
         IN  IF res.raised
             THEN NotLocated(res.error, self.digest, <<"package_by_version">>)
             ELSE Located(res.value, res.value.digest, <<"package_by_version">>)
    ELSE LET res == package_by_digest(idx, self.type, self.name, self.digest)
         IN  IF ~res.raised
             THEN Located(res.value, self.digest, <<"package_by_digest">>)
             ELSE IF res.error.msg = NoDigestMsg(self.type, self.name, self.digest)
                  THEN LET again == package_by_version(idx, self.type, self.name,
                                                       self.version)
                           calls == <<"package_by_digest", "package_by_version">>
                       IN  IF again.raised
                           THEN NotLocated(again.error, self.digest, calls)
                           ELSE Located(again.value, again.value.digest, calls)
                  ELSE NotLocated(res.error, self.digest, <<"package_by_digest">>)

\* the lookup that leaves the write of self.digest to the end of the call
LocateDeferred ==
    /\ pc = "IndexFetched"
    /\ LET res == locate(dep, fetched)
       IN  /\ lookups' = lookups \o res.calls
           /\ package_meta' = res.package_meta
           /\ result' = IF res.raised THEN Failure(res.error) ELSE result
           /\ pc' = IF res.raised THEN "Failed" ELSE "RecordLocated"
    /\ UNCHANGED <<ivars, publishing, index_json, ref, dep, verifydigest, fetched,
                   requests, tar>>

Locate ==
    /\ pc = "IndexFetched"
    /\ LET res == locate(dep, fetched)
       IN  /\ lookups' = lookups \o res.calls
           /\ dep' = [dep EXCEPT !.digest = res.digest]
           /\ package_meta' = res.package_meta
           /\ result' = IF res.raised THEN Failure(res.error) ELSE result
           /\ pc' = IF res.raised THEN "Failed" ELSE "RecordLocated"
    /\ UNCHANGED <<ivars, publishing, index_json, ref, verifydigest, fetched, requests, tar>>

\* lines 126-130: urlopen(package_url) answers with some archive
FetchBundle ==
    /\ pc = "RecordLocated"
    /\ requests' = Append(requests, package_url(dep, package_meta))
    /\ tar' \in Archives
    /\ pc' = "BundleFetched"
    /\ UNCHANGED <<ivars, publishing, index_json, ref, dep, verifydigest, fetched,
                   package_meta, lookups, result>>

\* urlopen(package_url) raises and the call opens the URL again
FetchBundleRetries ==
    /\ pc = "RecordLocated"
    /\ Len(requests) < 3
    /\ requests' = Append(requests, package_url(dep, package_meta))
    /\ UNCHANGED <<ivars, publishing, index_json, ref, dep, verifydigest, pc,
                   fetched, package_meta, lookups, tar, result>>

\* lines 126-128: urlopen(package_url) raises
FetchBundleFails ==
    /\ pc = "RecordLocated"
    /\ requests' = Append(requests, package_url(dep, package_meta))
    /\ result' = Failure(URLError)
    /\ pc' = "Failed"
    /\ UNCHANGED <<ivars, publishing, index_json, ref, dep, verifydigest, fetched,
                   package_meta, lookups, tar>>

\* lines 128-132: urlopen(package_url) answers with bytes tarfile.open cannot read
FetchBundleUnreadable ==
    /\ pc = "RecordLocated"
    /\ requests' = Append(requests, package_url(dep, package_meta))
    /\ result' = Failure(ReadError)
    /\ pc' = "Failed"
    /\ UNCHANGED <<ivars, publishing, index_json, ref, dep, verifydigest, fetched,
                   package_meta, lookups, tar>>

\* the loop without the test of line 138: the bytes are returned unverified
RECURSIVE scan_unverified(_, _, _)
scan_unverified(members, self, verify) ==
    IF members = <<>> THEN Failure(ValueError(NoResourceMsg))
    ELSE IF Head(members).name = "resource.json"
         THEN Returned(Head(members).data, self.digest)
         ELSE scan_unverified(Tail(members), self, verify)

\* the loop going on to the next member when the digest differs
RECURSIVE scan_continues(_, _, _)
scan_continues(members, self, verify) ==
    IF members = <<>> THEN Failure(ValueError(NoResourceMsg))
    ELSE IF Head(members).name = "resource.json"
            /\ ~(verify /\ sha256_hexdigest(Head(members).data) # self.digest)
         THEN Returned(Head(members).data, self.digest)
         ELSE scan_continues(Tail(members), self, verify)

\* the loop taking a member by the last component of its name
RECURSIVE scan_basename(_, _, _)
scan_basename(members, self, verify) ==
    IF members = <<>> THEN Failure(ValueError(NoResourceMsg))
    ELSE IF Head(members).name \in {"resource.json", "pkg/resource.json"}
         THEN LET file_bytes == Head(members).data
              IN  IF verify /\ sha256_hexdigest(file_bytes) # self.digest
                  THEN Failure(AssertionError(
                           HashMsg(self.digest, sha256_hexdigest(file_bytes))))
                  ELSE Returned(file_bytes, self.digest)
         ELSE scan_basename(Tail(members), self, verify)

\* lines 134-147: the loop over tar.getmembers(); the assert statement is
\* executed (the interpreter does not run with -O)
RECURSIVE scan(_, _, _)
scan(members, self, verify) ==
    IF members = <<>> THEN Failure(ValueError(NoResourceMsg))
    ELSE IF Head(members).name = "resource.json"
         THEN LET file_bytes == Head(members).data
              IN  IF verify /\ sha256_hexdigest(file_bytes) # self.digest
                  THEN Failure(AssertionError(
                           HashMsg(self.digest, sha256_hexdigest(file_bytes))))
                  ELSE Returned(file_bytes, self.digest)
         ELSE scan(Tail(members), self, verify)

Scan ==
    /\ pc = "BundleFetched"
    /\ result' = scan(tar, dep, verifydigest)
    /\ pc' = IF result'.raised THEN "Failed" ELSE "Verified"
    /\ UNCHANGED <<ivars, publishing, index_json, ref, dep, verifydigest, fetched,
                   package_meta, lookups, requests, tar>>

NextResolve ==
    \/ FetchIndex
    \/ FetchIndexFails
    \/ Locate
    \/ FetchBundle
    \/ FetchBundleFails
    \/ FetchBundleUnreadable
    \/ Scan

SpecResolve == InitResolve /\ [][NextResolve]_vars

(***************************************************************************)
(* Lookups on an index that insertions built.                              *)
(***************************************************************************)
InitLookup ==
    /\ index \in PublishedIndexes
    /\ now = index.generated
    /\ last = NoCall
    /\ index_json = EmptyIndex
    /\ InitResolver
    /\ publishing = NoCalls

\* index.package_by_version(package_type, package_name, package_version)
PackageByVersion ==
    \E package_type \in Kinds, package_name \in Names, package_version \in Versions :
        LET res == package_by_version(index, package_type, package_name,
                                      package_version)
        IN  /\ last' = [op |-> "package_by_version", package_type |-> package_type,
                        package_name |-> package_name, key |-> package_version,
                        raised |-> res.raised,
                        error |-> IF res.raised THEN res.error ELSE NoError,
                        value |-> IF res.raised THEN NoRecord ELSE res.value]
            /\ UNCHANGED <<index, now, rvars, publishing>>

\* index.package_by_digest(package_type, package_name, package_digest)
PackageByDigest ==
    \E package_type \in Kinds, package_name \in Names, package_digest \in Digests :
        LET res == package_by_digest(index, package_type, package_name,
                                     package_digest)
        IN  /\ last' = [op |-> "package_by_digest", package_type |-> package_type,
                        package_name |-> package_name, key |-> package_digest,
                        raised |-> res.raised,
                        error |-> IF res.raised THEN res.error ELSE NoError,
                        value |-> IF res.raised THEN NoRecord ELSE res.value]
            /\ UNCHANGED <<index, now, rvars, publishing>>

NextLookup ==
    \/ PackageByVersion
    \/ PackageByDigest

SpecLookup == InitLookup /\ [][NextLookup]_vars

(***************************************************************************)
(* One merge_folder call on an index that was loaded from index.json.      *)
(***************************************************************************)
InitMerge ==
    /\ index \in BuiltIndexes(MaxTarget)
    /\ now = index.generated
    /\ last = NoCall
    /\ index_json = index
    /\ InitResolver
    /\ publishing = NoCalls

\* index.merge_folder(folder_path, overwrite, skip), once
MergeFolderOnce ==
    /\ last = NoCall
    /\ \E folder \in Folders, overwrite \in BOOLEAN, skip \in BOOLEAN :
          LET res == merge_folder(index, folder, overwrite, skip, now)
          IN  /\ now' = res.clock
              /\ index' = res.self
              /\ last' = [op |-> "merge", folder |-> folder,
                          overwrite |-> overwrite, skip |-> skip, pre |-> index,
                          raised |-> res.raised, error |-> res.error]
              /\ UNCHANGED <<rvars, publishing>>

NextMerge == MergeFolderOnce

SpecMerge == InitMerge /\ [][NextMerge]_vars

(***************************************************************************)
(* RepositoryIndex.index_resource: calls on one index folder, each a load  *)
(* of index.json, an insertion in memory and a write of index.json.        *)
(***************************************************************************)
\* index.json after open(filepath, 'w') and before the write: an empty file
EmptyFile == [generated |-> -1, operator |-> EmptyDict, recipe |-> EmptyDict]

\* index.json after a write made through a handle that was opened before
\* another caller's write, when the text written is shorter than the text in
\* the file: the new text followed by the rest of the old one
GarbledFile == [generated |-> -2, operator |-> EmptyDict, recipe |-> EmptyDict]

\* parse_file / parse_obj raise on a file that holds no JSON document
Unreadable(file) == file \in {EmptyFile, GarbledFile}

ParseError == [type |-> "ParseError", msg |-> <<"index.json">>]

\* the calls index_resource can be given: a resource that packages to a
\* record of its kind, and overwrite
Publishes ==
    [pc : {"called"}, kind : Kinds, resource_version : ResourceVersion,
     overwrite : BOOLEAN, loaded : {EmptyIndex}, index : {EmptyIndex},
     error : {NoError}]

InitPublish ==
    /\ index = EmptyIndex
    /\ last = NoCall
    /\ index_json \in BuiltIndexes(MaxTarget)
    /\ now = index_json.generated
    /\ InitResolver
    /\ publishing \in [Publishers -> Publishes \cup {NoPublish}]
    /\ publishing # NoCalls

\* index = cls.parse_obj({}) in the place of the load: the call starts from
\* an empty index
PublishLoadFresh(p) ==
    /\ publishing[p].pc = "called"
    /\ ~Unreadable(index_json)
    /\ publishing' = [publishing EXCEPT ![p].pc = "loaded",
                              ![p].loaded = index_json,
                              ![p].index = EmptyIndex]
    /\ UNCHANGED <<ivars, rvars>>

\* index = cls.from_file(os.path.join(index_folder, 'index.json'))
PublishLoad(p) ==
    /\ publishing[p].pc = "called"
    /\ ~Unreadable(index_json)
    /\ publishing' = [publishing EXCEPT ![p].pc = "loaded",
                              ![p].loaded = index_json,
                              ![p].index = index_json]
    /\ UNCHANGED <<ivars, rvars>>

\* from_file raises: another caller has opened the file and not written it
\* yet, or has garbled it
PublishLoadFails(p) ==
    /\ publishing[p].pc = "called"
    /\ Unreadable(index_json)
    /\ publishing' = [publishing EXCEPT ![p].pc = "failed", ![p].error = ParseError]
    /\ UNCHANGED <<ivars, rvars>>

\* package_resource, then index.index_operator_version(resource_version,
\* overwrite) or index.index_recipe_version(resource_version, overwrite) on
\* the caller's own index object; a ValueError is raised again
PublishInsert(p) ==
    /\ publishing[p].pc = "loaded"
    /\ LET call == publishing[p]
           res == IF call.kind = "operator"
                  THEN index_operator_version(call.index, call.resource_version,
                                              call.overwrite, now + 1)
                  ELSE index_recipe_version(call.index, call.resource_version,
                                            call.overwrite, now + 1)
       IN  publishing' = IF res.raised
                    THEN [publishing EXCEPT ![p].pc = "failed", ![p].error = res.error]
                    ELSE [publishing EXCEPT ![p].pc = "inserted", ![p].index = res.value]
    /\ now' = now + 1
    /\ UNCHANGED <<index, last, rvars>>

\* index.to_json(index_path): open(filepath, 'w') empties the file
PublishOpen(p) ==
    /\ publishing[p].pc = "inserted"
    /\ publishing' = [publishing EXCEPT ![p].pc = "opened"]
    /\ index_json' = EmptyFile
    /\ last' = [op |-> "open", by |-> p]
    /\ UNCHANGED <<index, now, ref, dep, verifydigest, pc, fetched, package_meta,
                   lookups, requests, tar, result>>

\* the write that reads index.json again and inserts into what it read
PublishWriteMerged(p) ==
    /\ publishing[p].pc = "opened"
    /\ LET call == publishing[p]
           onto == IF Unreadable(index_json) THEN call.index ELSE index_json
           res == IF call.kind = "operator"
                  THEN index_operator_version(onto, call.resource_version, TRUE,
                                              call.index.generated)
                  ELSE index_recipe_version(onto, call.resource_version, TRUE,
                                            call.index.generated)
       IN  index_json' = res.value
    /\ publishing' = [publishing EXCEPT ![p].pc = "done"]
    /\ last' = [op |-> "write", by |-> p]
    /\ UNCHANGED <<index, now, ref, dep, verifydigest, pc, fetched, package_meta,
                   lookups, requests, tar, result>>

\* index.to_json(index_path): file.write(self.json(...)) and the close. The
\* text goes to the start of the file; when another caller has written since
\* this caller's open, the file keeps what lies beyond the new text
PublishWrite(p) ==
    /\ publishing[p].pc = "opened"
    /\ \/ index_json' = publishing[p].index
       \/ /\ index_json # EmptyFile
          /\ index_json' = GarbledFile
    /\ publishing' = [publishing EXCEPT ![p].pc = "done"]
    /\ last' = [op |-> "write", by |-> p]
    /\ UNCHANGED <<index, now, ref, dep, verifydigest, pc, fetched, package_meta,
                   lookups, requests, tar, result>>

NextPublish ==
    \E p \in Publishers :
        \/ PublishLoad(p)
        \/ PublishLoadFails(p)
        \/ PublishInsert(p)
        \/ PublishOpen(p)
        \/ PublishWrite(p)

SpecPublish == InitPublish /\ [][NextPublish]_vars

(***************************************************************************)
(* RepositoryIndex.from_folder on a folder, and on the same folder with    *)
(* os.listdir giving its packages in another order.                        *)
(***************************************************************************)
\* the loop inserting with overwrite set
RECURSIVE from_folder_loop_overwrites(_, _, _, _)
from_folder_loop_overwrites(self, packages, package_type, clock) ==
    IF packages = <<>>
    THEN [raised |-> FALSE, error |-> NoError, self |-> self, clock |-> clock]
    ELSE LET res == IF package_type = "operator"
                    THEN index_operator_version(self, Head(packages), TRUE,
                                                clock + 1)
                    ELSE index_recipe_version(self, Head(packages), TRUE,
                                              clock + 1)
         IN  IF res.raised
             THEN [raised |-> TRUE, error |-> res.error, self |-> self,
                   clock |-> clock + 1]
             ELSE from_folder_loop_overwrites(res.value, Tail(packages),
                                              package_type, clock + 1)

\* one loop of from_folder over the packages of a sub-folder: each is
\* inserted with the default overwrite, False; an exception leaves the loop
RECURSIVE from_folder_loop(_, _, _, _)
from_folder_loop(self, packages, package_type, clock) ==
    IF packages = <<>>
    THEN [raised |-> FALSE, error |-> NoError, self |-> self, clock |-> clock]
    ELSE LET res == IF package_type = "operator"
                    THEN index_operator_version(self, Head(packages), FALSE,
                                                clock + 1)
                    ELSE index_recipe_version(self, Head(packages), FALSE,
                                              clock + 1)
         IN  IF res.raised
             THEN [raised |-> TRUE, error |-> res.error, self |-> self,
                   clock |-> clock + 1]
             ELSE from_folder_loop(res.value, Tail(packages), package_type,
                                   clock + 1)

\* RepositoryIndex.from_folder(folder_path): the operators, then the recipes,
\* into an empty index
from_folder(folder, clock) ==
    LET ops == from_folder_loop(EmptyIndex, folder.operators, "operator", clock)
    IN  IF ops.raised THEN ops
        ELSE from_folder_loop(ops.self, folder.recipes, "recipe", ops.clock)

\* the orders in which os.listdir can give the packages of a sub-folder
Orderings(packages) ==
    {[i \in 1..Len(packages) |-> packages[f[i]]] :
        f \in {g \in [1..Len(packages) -> 1..Len(packages)] :
                  \A i, j \in 1..Len(packages) : g[i] = g[j] => i = j}}

EmptyFolder == [operators |-> <<>>, recipes |-> <<>>]

InitBuild ==
    /\ index = EmptyIndex
    /\ now = 0
    /\ last = NoCall
    /\ index_json = EmptyIndex
    /\ InitResolver
    /\ publishing = NoCalls

\* RepositoryIndex.from_folder(folder_path), and the same call with the
\* packages listed in another order
FromFolder ==
    /\ last = NoCall
    /\ \E folder \in Folders \cup {EmptyFolder} :
          \E operators \in Orderings(folder.operators),
             recipes \in Orderings(folder.recipes) :
              LET other == [operators |-> operators, recipes |-> recipes]
                  res == from_folder(folder, now)
                  again == from_folder(other, now)
              IN  /\ index' = IF res.raised THEN index ELSE res.self
                  /\ now' = res.clock
                  /\ last' = [op |-> "from_folder", folder |-> folder,
                              raised |-> res.raised, error |-> res.error,
                              other |-> other, other_raised |-> again.raised,
                              other_error |-> again.error,
                              other_index |-> again.self]
    /\ UNCHANGED <<rvars, publishing>>

NextBuild == FromFolder

SpecBuild == InitBuild /\ [][NextBuild]_vars

(***************************************************************************)
(* One insertion into an index whose lists hold up to three versions.      *)
(***************************************************************************)
MoreVersions == Versions \cup {"v3"}

\* the records an insertion is given
MoreResourceVersion ==
    {[name |-> n, version |-> v, digest |-> d, url |-> PackageFile(n, v)] :
        n \in Names, v \in MoreVersions, d \in Digests}

\* the indexes that at most n insertions of records of one digest build
RECURSIVE IndexedBy(_)
IndexedBy(n) ==
    IF n = 0 THEN {EmptyIndex}
    ELSE LET built == IndexedBy(n - 1)
             records == {r \in MoreResourceVersion : r.digest = "dA"}
         IN  built
             \cup {index_operator_version(i, r, TRUE, 1).value :
                      i \in built, r \in records}
             \cup {index_recipe_version(i, r, TRUE, 1).value :
                      i \in built, r \in records}

InitInsert ==
    /\ index \in IndexedBy(MaxIndexed)
    /\ now = index.generated
    /\ last = NoCall
    /\ index_json = EmptyIndex
    /\ InitResolver
    /\ publishing = NoCalls

\* index.index_operator_version(operator_version, overwrite), once
IndexOperatorVersionOnce ==
    /\ last = NoCall
    /\ \E operator_version \in MoreResourceVersion, overwrite \in BOOLEAN :
          LET res == index_operator_version(index, operator_version, overwrite,
                                            now + 1)
          IN  /\ now' = now + 1
              /\ index' = IF res.raised THEN index ELSE res.value
              /\ last' = [op |-> "insert", kind |-> "operator",
                          resource_version |-> operator_version,
                          overwrite |-> overwrite, pre |-> index,
                          raised |-> res.raised,
                          error |-> IF res.raised THEN res.error ELSE NoError]
    /\ UNCHANGED <<rvars, publishing>>

\* index.index_recipe_version(recipe_version, overwrite), once
IndexRecipeVersionOnce ==
    /\ last = NoCall
    /\ \E recipe_version \in MoreResourceVersion, overwrite \in BOOLEAN :
          LET res == index_recipe_version(index, recipe_version, overwrite,
                                          now + 1)
          IN  /\ now' = now + 1
              /\ index' = IF res.raised THEN index ELSE res.value
              /\ last' = [op |-> "insert", kind |-> "recipe",
                          resource_version |-> recipe_version,
                          overwrite |-> overwrite, pre |-> index,
                          raised |-> res.raised,
                          error |-> IF res.raised THEN res.error ELSE NoError]
    /\ UNCHANGED <<rvars, publishing>>

NextInsert ==
    \/ IndexOperatorVersionOnce
    \/ IndexRecipeVersionOnce

SpecInsert == InitInsert /\ [][NextInsert]_vars

(***************************************************************************)
(* Properties of the index in memory (Spec).                               *)
(***************************************************************************)
\* the records of a name under a kind, none when the name has no list
RecordsOf(idx, kind, name) ==
    IF name \in DOMAIN idx[kind]
    THEN {idx[kind][name][i] : i \in 1..Len(idx[kind][name])}
    ELSE {}

\* the index holds a record of that kind, name and version
Holds(idx, kind, name, version) ==
    \E r \in RecordsOf(idx, kind, name) : r.version = version

\* the spec's Conflict
IsConflict(error) ==
    /\ error.type = "ValueError"
    /\ Len(error.msg) = 5
    /\ error.msg[3] = " already has a version "

\* C1: whatever insertions and merges were made from the empty index, no list
\* of the index holds two records with the same version.
C1_UniqueVersions ==
    \A kind \in Kinds : \A name \in DOMAIN index[kind] :
        \A i, j \in 1..Len(index[kind][name]) :
            i # j => index[kind][name][i].version # index[kind][name][j].version

\* a merge under overwrite has just inserted a version the index already held,
\* and the list holds that version still
C1_Witness ==
    /\ last.op = "merge"
    /\ last.overwrite
    /\ ~last.raised
    /\ \E i \in 1..Len(last.folder.recipes) :
          LET r == last.folder.recipes[i]
          IN  /\ Holds(last.pre, "recipe", r.name, r.version)
              /\ Holds(index, "recipe", r.name, r.version)
              /\ r \notin RecordsOf(last.pre, "recipe", r.name)

\* C2: an insertion without overwrite of a (kind, name, version) the index
\* holds fails with Conflict and leaves the index as it was: both maps, the
\* order of every list and the generated timestamp.
C2_ConflictLeavesIndex ==
    (/\ last.op = "insert"
     /\ ~last.overwrite
     /\ Holds(last.pre, last.kind, last.resource_version.name,
              last.resource_version.version))
    => /\ last.raised
       /\ IsConflict(last.error)
       /\ index = last.pre

\* such an insertion was made, at a later instant than the index was generated,
\* with a record that differs from the one held
C2_Witness ==
    /\ last.op = "insert"
    /\ ~last.overwrite
    /\ Holds(last.pre, last.kind, last.resource_version.name,
             last.resource_version.version)
    /\ last.resource_version \notin
          RecordsOf(last.pre, last.kind, last.resource_version.name)
    /\ last.raised
    /\ last.pre.generated < now

\* C3: an insertion under overwrite of a (kind, name, version) the index holds
\* succeeds, and the list of the name then holds exactly one record of that
\* version: the inserted one.
C3_OverwriteReplaces ==
    (/\ last.op = "insert"
     /\ last.overwrite
     /\ Holds(last.pre, last.kind, last.resource_version.name,
              last.resource_version.version))
    => /\ ~last.raised
       /\ LET list == index[last.kind][last.resource_version.name]
              at == {i \in 1..Len(list) :
                        list[i].version = last.resource_version.version}
          IN  /\ Cardinality(at) = 1
              /\ \A i \in at : list[i] = last.resource_version

\* such an insertion replaced a record of another digest
C3_Witness ==
    /\ last.op = "insert"
    /\ last.overwrite
    /\ ~last.raised
    /\ \E r \in RecordsOf(last.pre, last.kind, last.resource_version.name) :
          /\ r.version = last.resource_version.version
          /\ r.digest # last.resource_version.digest

(***************************************************************************)
(* Properties of the lookups (SpecLookup).                                 *)
(***************************************************************************)
\* the spec's NotFound: one of the three "No ... exists in this index" messages
IsNotFound(error) ==
    /\ error.type = "ValueError"
    /\ error.msg[1] = "No "
    /\ error.msg[Len(error.msg)] = " exists in this index"

IsLookup == last.op \in {"package_by_version", "package_by_digest"}

\* the key of a record that the last lookup went by
KeyOf(r) == IF last.op = "package_by_version" THEN r.version ELSE r.digest

\* the list the last lookup searched, empty when the name has none
ListLookedUp ==
    IF last.package_name \in DOMAIN index[last.package_type]
    THEN index[last.package_type][last.package_name]
    ELSE <<>>

\* C4 as claimed: a lookup by the version or by the digest of a record the
\* index holds returns that very record, also when several versions of the
\* name carry the digest.
C4_LookupReturnsTheRecord ==
    IsLookup =>
        \A i \in 1..Len(ListLookedUp) :
            KeyOf(ListLookedUp[i]) = last.key
                => ~last.raised /\ last.value = ListLookedUp[i]

\* C4 as amended: a lookup by the version of a record the index holds returns
\* that very record; a lookup by its digest returns the first record of the
\* list that carries the digest, which is that very record when no record
\* before it in the list carries the same digest.
C4_LookupReturnsFirstOfKey ==
    IsLookup =>
        \A i \in 1..Len(ListLookedUp) :
            KeyOf(ListLookedUp[i]) = last.key
                => /\ ~last.raised
                   /\ (last.op = "package_by_version" => last.value = ListLookedUp[i])
                   /\ \E j \in 1..i :
                         /\ KeyOf(ListLookedUp[j]) = last.key
                         /\ \A k \in 1..(j - 1) : KeyOf(ListLookedUp[k]) # last.key
                         /\ last.value = ListLookedUp[j]

\* a lookup by a digest that two versions of the name carry
C4_Witness ==
    /\ last.op = "package_by_digest"
    /\ ~last.raised
    /\ Len(ListLookedUp) = 2
    /\ ListLookedUp[1].digest = last.key
    /\ ListLookedUp[2].digest = last.key
    /\ last.value = ListLookedUp[1]

\* C5: a lookup fails, with NotFound, exactly when the name has no list under
\* the kind or its list has no record of the key; otherwise it returns a record
\* of the list whose key is the one asked for.
C5_NotFoundExactly ==
    IsLookup =>
        /\ last.raised <=>
              \/ last.package_name \notin DOMAIN index[last.package_type]
              \/ \A i \in 1..Len(ListLookedUp) : KeyOf(ListLookedUp[i]) # last.key
        /\ last.raised => IsNotFound(last.error)
        /\ ~last.raised =>
              /\ \E i \in 1..Len(ListLookedUp) : last.value = ListLookedUp[i]
              /\ KeyOf(last.value) = last.key

\* a lookup by a digest that no record of the name's list carries
C5_Witness ==
    /\ last.op = "package_by_digest"
    /\ last.package_name \in DOMAIN index[last.package_type]
    /\ \E i \in 1..Len(ListLookedUp) : ListLookedUp[i].version = "v1"
    /\ last.raised
    /\ IsNotFound(last.error)

(***************************************************************************)
(* Properties of Dependency.fetch (SpecResolve).                           *)
(***************************************************************************)
\* the spec's IntegrityError: the assert of line 139 failed
IsIntegrityError(error) ==
    /\ error.type = "AssertionError"
    /\ error.msg[1] =
          "Hash of resource.json file is different from the one expected from the index"

\* the call got an index: it is past _fetch_index, which did not raise
IndexWasFetched ==
    /\ pc # "Unresolved"
    /\ ~(pc = "Failed" /\ lookups = <<>>)

\* the call is past the lookup of lines 96-124
LookupDone == IndexWasFetched /\ pc # "IndexFetched"

\* the call is past the lookup, which located a record
RecordWasLocated == LookupDone /\ ~(pc = "Failed" /\ Len(requests) = 1)

\* the call read the archive: it is past the loop of lines 134-147
ArchiveScanned ==
    /\ pc \in {"Verified", "Failed"}
    /\ Len(requests) = 2
    /\ result.error.type \notin {"URLError", "ReadError"}

\* the call ended with a return value
Succeeded == pc = "Verified" /\ ~result.raised

\* the records the published index lists for the reference's name
RecordsOfRef == RecordsOf(index_json, ref.type, ref.name)

\* the data of the first member named resource.json, None when there is none
RECURSIVE FirstManifest(_)
FirstManifest(members) ==
    IF members = <<>> THEN None
    ELSE IF Head(members).name = "resource.json" THEN Head(members).data
    ELSE FirstManifest(Tail(members))

\* C6: a fetch on a reference without digest that succeeds leaves the
\* reference with the digest of the index record of its name and version, and
\* returns that digest with the bytes; when the index fetched has no record of
\* the name and version, the call fails with NotFound.
C6_UnlockedIsLocked ==
    ref.digest = None =>
        /\ Succeeded =>
              /\ dep.digest # None
              /\ \E r \in RecordsOfRef :
                    r.version = ref.version /\ r.digest = dep.digest
              /\ \A r \in RecordsOfRef :
                    r.version = ref.version => r.digest = dep.digest
              /\ result.digest = dep.digest
        /\ (LookupDone /\ ~Holds(index_json, ref.type, ref.name, ref.version)) =>
              /\ pc = "Failed"
              /\ IsNotFound(result.error)

\* a fetch on a reference without digest succeeded against a name with two
\* versions of different digests
C6_Witness ==
    /\ ref.digest = None
    /\ Succeeded
    /\ dep.digest \in Digests
    /\ \E r \in RecordsOfRef : r.version # ref.version /\ r.digest # dep.digest

\* the reference is pinned to a digest no record of its name carries, and a
\* record of its name and version exists
StalePin ==
    /\ ref.digest # None
    /\ \A r \in RecordsOfRef : r.digest # ref.digest
    /\ Holds(index_json, ref.type, ref.name, ref.version)

\* C7: on a reference pinned to a digest no record of its name carries, while
\* a record of its name and version exists, the lookup falls back to the
\* version, the reference takes that record's digest, and the bytes are
\* verified against the new digest, not the stale one.
C7_StalePinFallsBack ==
    (StalePin /\ LookupDone) =>
        /\ RecordWasLocated
        /\ lookups = <<"package_by_digest", "package_by_version">>
        /\ package_meta \in RecordsOfRef
        /\ package_meta.version = ref.version
        /\ dep.digest = package_meta.digest
        /\ dep.digest # ref.digest
        /\ (ArchiveScanned /\ verifydigest /\ FirstManifest(tar) # None) =>
              IF sha256_hexdigest(FirstManifest(tar)) = package_meta.digest
              THEN Succeeded /\ result.digest = package_meta.digest
              ELSE /\ pc = "Failed"
                   /\ result.error = AssertionError(HashMsg(package_meta.digest,
                                         sha256_hexdigest(FirstManifest(tar))))

\* a fetch with a stale pin returned bytes verified against the record's digest
C7_Witness ==
    /\ StalePin
    /\ verifydigest
    /\ Succeeded
    /\ sha256_hexdigest(result.file_bytes) = dep.digest
    /\ sha256_hexdigest(result.file_bytes) # ref.digest

\* C8: on a pinned reference whose name the fetched index does not list under
\* its kind, the call fails with NotFound after the lookup by digest alone: no
\* lookup by version, no bundle fetched, the reference's digest unchanged.
C8_UnknownNameNoFallback ==
    (/\ ref.digest # None
     /\ ref.name \notin DOMAIN index_json[ref.type]
     /\ LookupDone)
    => /\ pc = "Failed"
       /\ IsNotFound(result.error)
       /\ result.error = ValueError(NoNameMsg(ref.type, ref.name))
       /\ lookups = <<"package_by_digest">>
       /\ requests = <<index_url(ref)>>
       /\ tar = <<>>
       /\ dep = ref

\* such a fetch failed, the name being listed under the other kind only
C8_Witness ==
    /\ ref.digest # None
    /\ ref.name \notin DOMAIN index_json[ref.type]
    /\ \E kind \in Kinds : ref.name \in DOMAIN index_json[kind]
    /\ pc = "Failed"
    /\ lookups = <<"package_by_digest">>

\* C9: with verification asked for, when the sha256 of the resource.json bytes
\* read from the archive differs from the digest the reference carries after
\* the lookup, the call fails with IntegrityError and returns no bytes.
C9_MismatchFails ==
    (/\ verifydigest
     /\ ArchiveScanned
     /\ FirstManifest(tar) # None
     /\ sha256_hexdigest(FirstManifest(tar)) # dep.digest)
    => /\ pc = "Failed"
       /\ result.raised
       /\ IsIntegrityError(result.error)
       /\ result.file_bytes = None

\* such a fetch failed on an archive that also holds a manifest of the
\* expected digest, after the first one
C9_Witness ==
    /\ verifydigest
    /\ ArchiveScanned
    /\ Len(tar) = 2
    /\ tar[1].name = "resource.json"
    /\ tar[2].name = "resource.json"
    /\ sha256_hexdigest(tar[1].data) # dep.digest
    /\ sha256_hexdigest(tar[2].data) = dep.digest
    /\ pc = "Failed"

\* C10 as claimed: whatever the arguments, no fetch returns bytes whose sha256
\* differs from the digest returned with them.
C10_NeverReturnsMismatch ==
    Succeeded => sha256_hexdigest(result.file_bytes) = result.digest

\* C10 as amended: with verification asked for (verifydigest true, the
\* default), no fetch returns bytes whose sha256 differs from the digest
\* returned with them, which is the digest the reference then carries.
C10_VerifiedReturnsMatch ==
    (Succeeded /\ verifydigest) =>
        /\ sha256_hexdigest(result.file_bytes) = result.digest
        /\ result.digest = dep.digest

\* a fetch with verification returned bytes
C10_Witness ==
    /\ Succeeded
    /\ verifydigest
    /\ result.file_bytes \in Bytes
    /\ result.digest \in Digests

(***************************************************************************)
(* Properties of merge_folder (SpecMerge).                                 *)
(***************************************************************************)
\* the packages of the merged folder in the order merge_folder reads them,
\* each with the kind of its sub-folder
Entries ==
    [i \in 1..Len(last.folder.operators) |->
        [kind |-> "operator", rv |-> last.folder.operators[i]]]
    \o [i \in 1..Len(last.folder.recipes) |->
        [kind |-> "recipe", rv |-> last.folder.recipes[i]]]

SameKey(e, f) ==
    /\ e.kind = f.kind
    /\ e.rv.name = f.rv.name
    /\ e.rv.version = f.rv.version

\* the index holds the entry's (kind, name, version) when its insertion is
\* attempted without overwrite: the target held it before the merge, or an
\* earlier entry of the folder has put it there
Conflicts(i) ==
    \/ Holds(last.pre, Entries[i].kind, Entries[i].rv.name, Entries[i].rv.version)
    \/ \E j \in 1..(i - 1) : SameKey(Entries[j], Entries[i])

\* the entries among the first n that a merge without overwrite inserts under
\* a kind and a name
Inserted(n, kind, name) ==
    {i \in 1..n : /\ Entries[i].kind = kind
                  /\ Entries[i].rv.name = name
                  /\ ~Conflicts(i)}

\* the index is the target before the merge with the non-conflicting entries
\* among the first n added, each once, after the records the target held
TargetPlusInserted(n) ==
    \A kind \in Kinds : \A name \in Names :
        LET before == DictGet(last.pre[kind], name, <<>>)
            after == DictGet(index[kind], name, <<>>)
        IN  /\ SubSeq(after, 1, Len(before)) = before
            /\ Len(after) = Len(before) + Cardinality(Inserted(n, kind, name))
            /\ {after[k] : k \in (Len(before) + 1)..Len(after)}
                  = {Entries[i].rv : i \in Inserted(n, kind, name)}
            /\ name \in DOMAIN index[kind] <=> after # <<>>

\* C11: a merge with overwrite false and skip true never fails; afterwards the
\* target holds the records it held, unchanged, and every source record whose
\* (kind, name, version) the target did not hold when its insertion was
\* attempted; the source records whose key was held are the ones left out.
C11_SkipMergeKeepsAllButConflicts ==
    (last.op = "merge" /\ ~last.overwrite /\ last.skip) =>
        /\ ~last.raised
        /\ TargetPlusInserted(Len(Entries))
        /\ \A i \in 1..Len(Entries) :
              Conflicts(i) =>
                 \/ Entries[i].rv \notin
                       RecordsOf(index, Entries[i].kind, Entries[i].rv.name)
                 \/ Entries[i].rv \in
                       RecordsOf(last.pre, Entries[i].kind, Entries[i].rv.name)
                 \/ \E j \in 1..(i - 1) : Entries[j] = Entries[i]

\* such a merge skipped a record the target held under another digest and
\* went on to insert the next record of the same sub-folder
C11_Witness ==
    /\ last.op = "merge"
    /\ ~last.overwrite
    /\ last.skip
    /\ ~last.raised
    /\ Len(last.folder.operators) = 2
    /\ Holds(last.pre, "operator", last.folder.operators[1].name,
             last.folder.operators[1].version)
    /\ last.folder.operators[1] \notin
          RecordsOf(last.pre, "operator", last.folder.operators[1].name)
    /\ ~Holds(last.pre, "operator", last.folder.operators[2].name,
              last.folder.operators[2].version)
    /\ last.folder.operators[2] \in
          RecordsOf(index, "operator", last.folder.operators[2].name)

\* the first entry of the folder whose insertion conflicts, 0 when none does
FirstConflict ==
    IF \E i \in 1..Len(Entries) : Conflicts(i)
    THEN CHOOSE i \in 1..Len(Entries) :
            Conflicts(i) /\ \A j \in 1..(i - 1) : ~Conflicts(j)
    ELSE 0

\* C12: a merge with overwrite false and skip false fails with Conflict at the
\* first source record whose (kind, name, version) the target holds: the
\* records before it are inserted, no record after it is (no recipe when the
\* conflict is on an operator), and index.json is not written.
C12_StrictMergeAborts ==
    (last.op = "merge" /\ ~last.overwrite /\ ~last.skip /\ FirstConflict # 0) =>
        /\ last.raised
        /\ last.error = ValueError(AlreadyIndexedMsg(Entries[FirstConflict].rv.name,
                                       Entries[FirstConflict].rv.version))
        /\ TargetPlusInserted(FirstConflict - 1)
        /\ index_json = last.pre

\* such a merge failed on an operator the target held, a recipe the target
\* did not hold coming after it
C12_Witness ==
    /\ last.op = "merge"
    /\ ~last.overwrite
    /\ ~last.skip
    /\ last.raised
    /\ Len(last.folder.operators) = 1
    /\ Len(last.folder.recipes) = 1
    /\ Holds(last.pre, "operator", last.folder.operators[1].name,
             last.folder.operators[1].version)
    /\ ~Holds(last.pre, "recipe", last.folder.recipes[1].name,
              last.folder.recipes[1].version)
    /\ ~Holds(index, "recipe", last.folder.recipes[1].name,
              last.folder.recipes[1].version)

(***************************************************************************)
(* Properties of index_resource (SpecPublish).                             *)
(***************************************************************************)
\* the call of p is the only index_resource call on the index folder
Alone(p) == \A q \in Publishers \ {p} : publishing[q].pc = "idle"

\* the records the index p loaded held under the (kind, name, version) of the
\* record p publishes
Replaced(p) ==
    {r \in RecordsOf(publishing[p].loaded, publishing[p].kind,
                     publishing[p].resource_version.name) :
        r.version = publishing[p].resource_version.version}

\* C13: an index_resource call run alone that fails with Conflict leaves
\* index.json as it was; one that succeeds leaves an index.json that holds the
\* new record and every record it held before, but for the one record of the
\* same (kind, name, version) that overwrite replaced.
C13_PublishAlone ==
    \A p \in Publishers :
        LET call == publishing[p]
        IN  Alone(p) =>
              /\ (call.pc = "failed" /\ IsConflict(call.error)) =>
                    index_json = call.loaded
              /\ call.pc = "done" =>
                    /\ Cardinality(Replaced(p)) <= 1
                    /\ ~call.overwrite => Replaced(p) = {}
                    /\ \A kind \in Kinds : \A name \in Names :
                          RecordsOf(index_json, kind, name)
                             = IF kind = call.kind /\ name = call.resource_version.name
                               THEN (RecordsOf(call.loaded, kind, name) \ Replaced(p))
                                       \cup {call.resource_version}
                               ELSE RecordsOf(call.loaded, kind, name)

\* a call run alone has succeeded on an index.json that held a record of
\* another key, and index.json holds both records
C13_Witness ==
    \E p \in Publishers :
        /\ Alone(p)
        /\ publishing[p].pc = "done"
        /\ Replaced(p) = {}
        /\ \E kind \in Kinds : \E name \in Names :
              \E r \in RecordsOf(publishing[p].loaded, kind, name) :
                  /\ r \in RecordsOf(index_json, kind, name)
                  /\ r # publishing[p].resource_version
        /\ publishing[p].resource_version
              \in RecordsOf(index_json, publishing[p].kind,
                            publishing[p].resource_version.name)

\* the two calls publish different packages
DifferentPackages(p, q) ==
    \/ publishing[p].kind # publishing[q].kind
    \/ publishing[p].resource_version.name # publishing[q].resource_version.name
    \/ publishing[p].resource_version.version
          # publishing[q].resource_version.version

\* index.json holds a record of the (kind, name, version) q publishes
HoldsPackageOf(idx, q) ==
    Holds(idx, publishing[q].kind, publishing[q].resource_version.name,
          publishing[q].resource_version.version)

\* C14: when two index_resource calls for different packages on one index
\* folder have both returned, a readable index.json is the index object of
\* the call that wrote last: it holds the other call's record only when the
\* last writer loaded an index.json that held that package already. The calls
\* can interleave so that both return and the other call's record is lost.
C14_LastWriterWins ==
    \A p \in Publishers : \A q \in Publishers \ {p} :
        ( /\ publishing[p].pc = "done"
          /\ publishing[q].pc = "done"
          /\ DifferentPackages(p, q)
          /\ last = [op |-> "write", by |-> p]
          /\ ~Unreadable(index_json) ) =>
            /\ index_json = publishing[p].index
            /\ HoldsPackageOf(index_json, q) <=>
                  HoldsPackageOf(publishing[p].loaded, q)

\* both calls have returned, neither package was in the index.json either
\* call loaded, and index.json holds the last writer's record and not the
\* other's
C14_Witness ==
    \E p \in Publishers : \E q \in Publishers \ {p} :
        /\ publishing[p].pc = "done"
        /\ publishing[q].pc = "done"
        /\ DifferentPackages(p, q)
        /\ last = [op |-> "write", by |-> p]
        /\ ~HoldsPackageOf(publishing[p].loaded, p)
        /\ ~HoldsPackageOf(publishing[q].loaded, q)
        /\ HoldsPackageOf(index_json, p)
        /\ ~HoldsPackageOf(index_json, q)

(***************************************************************************)
(* Properties of fetch across registry growth (SpecResolve).               *)
(***************************************************************************)
\* the indexes a registry that published idx can publish later: at most n
\* insertions of a version its name does not have yet
RECURSIVE Grown(_, _)
Grown(idx, n) ==
    IF n = 0 THEN {idx}
    ELSE LET grown == Grown(idx, n - 1)
         IN  grown
             \cup {index_operator_version(i, r, FALSE, i.generated + 1).value :
                      <<i, r>> \in {ir \in grown \X ResourceVersion :
                          ~Holds(ir[1], "operator", ir[2].name, ir[2].version)}}
             \cup {index_recipe_version(i, r, FALSE, i.generated + 1).value :
                      <<i, r>> \in {ir \in grown \X ResourceVersion :
                          ~Holds(ir[1], "recipe", ir[2].name, ir[2].version)}}

\* the reference is pinned to a digest a record of its name carries
PinHeld ==
    /\ ref.digest # None
    /\ \E r \in RecordsOfRef : r.digest = ref.digest

\* C15: for a reference pinned to a digest that a record of its name carries,
\* the lookup of fetch gives the same record, the same package URL and the
\* same digest on the published index and on every index grown from it by
\* insertions of further versions of that name or of other names; the URL the
\* call opens and the digest it returns are those of that lookup.
C15_GrowthKeepsResolution ==
    /\ (PinHeld /\ pc = "RecordLocated") =>
          \A grown \in Grown(fetched, MaxGrowth) :
              LET res == locate(ref, grown)
              IN  /\ ~res.raised
                  /\ res.package_meta = package_meta
                  /\ res.digest = dep.digest
                  /\ package_url(ref, res.package_meta)
                        = package_url(dep, package_meta)
    /\ (PinHeld /\ RecordWasLocated) =>
          /\ Len(requests) = 2 => requests[2] = package_url(ref, package_meta)
          /\ Succeeded => result.digest = ref.digest

\* a fetch on such a reference returned, and the registry can grow by another
\* version of the name that carries the pinned digest too
C15_Witness ==
    /\ PinHeld
    /\ Succeeded
    /\ \E grown \in Grown(fetched, MaxGrowth) :
          \E r \in RecordsOf(grown, ref.type, ref.name) :
              /\ r.digest = ref.digest
              /\ r # package_meta

(***************************************************************************)
(* The order of the steps of fetch (SpecResolve).                          *)
(***************************************************************************)
\* the steps a fetch call can take, as pairs of the place it leaves and the
\* place it reaches
FetchSteps ==
    {<<"Unresolved", "IndexFetched">>, <<"IndexFetched", "RecordLocated">>,
     <<"RecordLocated", "BundleFetched">>, <<"BundleFetched", "Verified">>}
    \cup {<<from, "Failed">> : from \in {"Unresolved", "IndexFetched",
                                          "RecordLocated", "BundleFetched"}}

\* C16: every step of a fetch call goes from Unresolved to IndexFetched, to
\* RecordLocated, to BundleFetched, to Verified, in that order, or from one of
\* the first four to Failed; Verified and Failed are left by no step. The
\* index URL is opened by the step that leaves Unresolved and by no other,
\* the package URL by the step that leaves RecordLocated and by no other, so
\* neither is opened twice; a record is bound only by the step that leaves
\* IndexFetched, and bytes are returned only by the step that leaves
\* BundleFetched.
C16_StepsInOrder ==
    [][ /\ <<pc, pc'>> \in FetchSteps
        /\ requests' # requests =>
              \/ /\ pc = "Unresolved"
                 /\ requests = <<>>
                 /\ requests' = <<index_url(ref)>>
              \/ /\ pc = "RecordLocated"
                 /\ requests = <<index_url(ref)>>
                 /\ requests' = <<index_url(ref), package_url(dep, package_meta)>>
        /\ pc = "Unresolved" => requests' # requests
        /\ package_meta' # package_meta => pc = "IndexFetched"
        /\ pc' = "RecordLocated" => package_meta' # NoRecord
        /\ pc' = "BundleFetched" => requests' # requests
        /\ result'.file_bytes # None =>
              /\ pc = "BundleFetched"
              /\ pc' = "Verified"
        /\ pc' = "Verified" => result'.file_bytes # None
      ]_vars

\* a fetch call has gone through every step and returned
C16_Witness ==
    /\ pc = "Verified"
    /\ ~result.raised
    /\ requests = <<index_url(ref), package_url(dep, package_meta)>>
    /\ package_meta # NoRecord
    /\ tar # <<>>

(***************************************************************************)
(* Properties of from_folder (SpecBuild).                                  *)
(***************************************************************************)
\* C17: from_folder on two orderings of the same directory entries either
\* fails with Conflict on both or succeeds on both, with indexes that hold the
\* same set of records under every (kind, name).
C17_OrderIndependent ==
    last.op = "from_folder" =>
        /\ last.raised <=> last.other_raised
        /\ last.raised => IsConflict(last.error) /\ IsConflict(last.other_error)
        /\ ~last.raised =>
              \A kind \in Kinds : \A name \in Names :
                  RecordsOf(index, kind, name)
                     = RecordsOf(last.other_index, kind, name)

\* from_folder succeeded on two different orderings of a sub-folder
C17_Witness ==
    /\ last.op = "from_folder"
    /\ ~last.raised
    /\ last.folder.operators # last.other.operators
    /\ index # EmptyIndex

(***************************************************************************)
(* The archive without a resource.json (SpecResolve).                      *)
(***************************************************************************)
\* C18: when the archive read has no member named exactly resource.json the
\* call fails with the ValueError of line 147 and returns no bytes, with and
\* without verification; when the call returns bytes they are those of the
\* first member named resource.json.
C18_NoManifestFails ==
    ArchiveScanned =>
        /\ FirstManifest(tar) = None =>
              /\ result = Failure(ValueError(NoResourceMsg))
              /\ result.file_bytes = None
        /\ FirstManifest(tar) # None =>
              /\ result.error # ValueError(NoResourceMsg)
              /\ ~result.raised => result.file_bytes = FirstManifest(tar)

\* a call without verification failed on an archive whose only members carry
\* other names, one of them ending in resource.json
C18_Witness ==
    /\ ArchiveScanned
    /\ ~verifydigest
    /\ tar # <<>>
    /\ \E i \in 1..Len(tar) : tar[i].name = "pkg/resource.json"
    /\ FirstManifest(tar) = None
    /\ result = Failure(ValueError(NoResourceMsg))

(***************************************************************************)
(* What fetch writes on the reference (SpecResolve).                       *)
(***************************************************************************)
\* C20: fetch changes no field of the reference but digest; the digest is
\* the one the call was given until a record is located, and so after a
\* failure to fetch the index or to find a record; from the location of the
\* record on, before the package URL is opened, and after a later failure of
\* the call (URL not opened, archive unreadable, no resource.json, digest
\* mismatch), it is the digest of the index record located, also when the
\* reference had no digest or one no record of its name carries.
C20_DigestWrittenAtLocation ==
    /\ [dep EXCEPT !.digest = ref.digest] = ref
    /\ ~RecordWasLocated => dep = ref
    /\ RecordWasLocated =>
          /\ package_meta \in RecordsOfRef
          /\ dep.digest = package_meta.digest
          /\ (ref.digest = None \/ StalePin) =>
                package_meta.version = ref.version

\* a fetch on a reference pinned to a digest no record carries failed on the
\* digest of the bytes, and the reference carries the digest of the record
\* the fallback located
C20_Witness ==
    /\ StalePin
    /\ pc = "Failed"
    /\ result.error.type = "AssertionError"
    /\ dep.digest # ref.digest
    /\ dep.digest = package_meta.digest

(***************************************************************************)
(* What an insertion leaves alone (SpecInsert).                            *)
(***************************************************************************)
\* the records of a list whose version is not the given one, in the list's
\* order
OtherVersions(list, version) ==
    LET Other(r) == r.version # version
    IN  SelectSeq(list, Other)

\* C19: a successful insertion changes the list of the record's name under
\* the record's kind and generated, and nothing else: the other kind's map is
\* the same and so is every other name's list; the records of the name with
\* other versions keep their order, and the inserted record is the last of
\* the list, also when it replaces a record.
C19_InsertionFrame ==
    (last.op = "insert" /\ ~last.raised) =>
        LET kind == last.kind
            rv == last.resource_version
            before == DictGet(last.pre[kind], rv.name, <<>>)
            after == DictGet(index[kind], rv.name, <<>>)
        IN  /\ \A other \in Kinds \ {kind} : index[other] = last.pre[other]
            /\ DOMAIN index[kind] = DOMAIN last.pre[kind] \cup {rv.name}
            /\ \A name \in DOMAIN last.pre[kind] \ {rv.name} :
                  index[kind][name] = last.pre[kind][name]
            /\ after = Append(OtherVersions(before, rv.version), rv)
            /\ index = [last.pre EXCEPT ![kind] = index[kind],
                                        !.generated = index.generated]

\* an insertion with overwrite replaced the first record of a list of three:
\* the two other records moved up and the new record is the last
C19_Witness ==
    /\ last.op = "insert"
    /\ ~last.raised
    /\ last.overwrite
    /\ LET before == DictGet(last.pre[last.kind], last.resource_version.name, <<>>)
           after == DictGet(index[last.kind], last.resource_version.name, <<>>)
       IN  /\ Len(before) = 3
           /\ before[1].version = last.resource_version.version
           /\ before[1] # last.resource_version
           /\ after = <<before[2], before[3], last.resource_version>>
    /\ \E other \in Kinds \ {last.kind} : index[other] # EmptyDict

====
